---- MODULE Spec2Model ----
(***************************************************************************)
(* A mesh of StorageServer nodes (src/server.py).  Every node runs the     *)
(* same code: GET /{file_name} is get_file (local lookup, then a fan-out   *)
(* to the configured neighbours' /from_node/ endpoint, then an optional    *)
(* cache write in a separate thread), GET /from_node/{file_name} is        *)
(* get_local, GET /info is get_info.                                       *)
(***************************************************************************)
EXTENDS Integers, Sequences, FiniteSets, TLC

\* Bound: number of requests that clients send to the mesh.
MaxClientRequests == 2

\* Servers of the mesh, and an address at which no server answers.
Nodes == {"A", "B", "C"}
Unreachable == {"X"}
Addresses == Nodes \cup Unreachable

\* The server the clients talk to; the other servers are its peers.
EntryNodes == {"A"}

\* The file names of the directories and of the requests.
FileNames == {"x", "y"}

\* The bytes file x of each server's directory may hold at start (besides
\* the file being missing): an empty file, and files that differ between peers.
FileContents ==
    [n \in Nodes |-> IF n = "C" THEN {<<2, 1>>} ELSE {<<>>, <<1>>}]

\* The bytes of file y, which the entry server holds at start and its peers
\* do not.
OtherContent == <<3>>

\* The paths a client requests: /{file_name}, /from_node/{file_name}, /info.
Paths == {"file", "from_node", "info"}

\* The ways a request to an address without a responsive server fails.
FailureKinds == {"refused", "dns", "timeout"}

\* The neighbour lists the mesh may be started with (settings['neighbors']).
Topologies ==
    { [n \in Nodes |-> {}],
      [n \in Nodes |-> IF n = "A" THEN {"B", "C"} ELSE IF n = "B" THEN {"A"} ELSE {}],
      [n \in Nodes |-> IF n = "A" THEN {"B", "X"} ELSE IF n = "B" THEN {"A", "C"} ELSE {"X"}] }

VARIABLES
    nodes,       \* nodes[n]: self.nodes of server n
    save_file,   \* save_file[n]: self.save_file of server n
    directory,   \* directory[n][f]: the file f of self.directory of server n
    requests,    \* the requests received so far, with their handler's state:
                 \* <<k>> is the k-th request of a client, r \o <<p>> the request
                 \* that get_from_node of request r sent to server p
    threads      \* threads[r]: the cache writer thread started by request r

vars == <<nodes, save_file, directory, requests, threads>>

----------------------------------------------------------------------------
\* Python values of `content`.
None == [t |-> "None", v |-> <<>>]
Bytes(b) == [t |-> "bytes", v |-> b]

\* Falsy as it would be if the handlers took every local read for a miss.
FalsyAlways(c) == TRUE

\* `not content`: None and the empty byte string are both falsy.
Falsy(c) == c.t = "None" \/ c.v = <<>>

\* A path of the directory: missing, or a file with its bytes.
NoFile == [exists |-> FALSE, data |-> <<>>]
File(b) == [exists |-> TRUE, data |-> b]

\* Body of aiohttp's HTTPNotFound and of an unhandled error (text, not file bytes).
NotFoundBody == <<404>>
ServerErrorBody == <<500>>

\* Body of get_info: the address and base_dir of the server, as JSON.
InfoBody == <<0>>

\* The states file f of server n may be in when the server starts.
Stored(n, f) ==
    IF f = "x" THEN {NoFile} \cup {File(b) : b \in FileContents[n]}
    ELSE IF n \in EntryNodes THEN {File(OtherContent)} ELSE {NoFile}

\* _read_file as it would be if the local directory were never consulted.
_read_file_skipped(n, f) == None

\* _read_file: the whole file if the path exists, None otherwise.
_read_file(n, f) ==
    IF directory[n][f].exists THEN Bytes(directory[n][f].data) ELSE None

\* Route as it would be if /from_node/{file_name} were served by get_file.
RouteAllToGetFile(path) == IF path = "info" THEN "get_info" ELSE "get_file"

\* The routes of run(): which handler serves a path.
Route(path) ==
    CASE path = "file" -> "get_file"
      [] path = "from_node" -> "get_local"
      [] path = "info" -> "get_info"

\* FetchPath as it would be if get_from_node requested /{file_name}.
FetchPathCascading == "file"

\* The path get_from_node requests from a neighbour.
FetchPath == "from_node"

\* The exception a failed connection raises in session.get.
ExceptionOf(kind) ==
    IF kind \in {"refused", "dns"} THEN "ClientConnectorError" ELSE "TimeoutError"

\* except aiohttp.client_exceptions.ClientConnectorError
Caught(exc) == exc = "ClientConnectorError"

----------------------------------------------------------------------------
\* `content` of get_local before _read_file has returned.
Unread == [t |-> "unread", v |-> <<>>]

\* A request as its handler sees it.
NewRequest(n, path, f) ==
    [node |-> n, path |-> path, file_name |-> f,
     pc |-> "start", content |-> Unread, fetches |-> <<>>,
     status |-> 0, body |-> <<>>]

\* The requests sent by clients, and those sent by get_from_node.
ClientRequests == {r \in DOMAIN requests : Len(r) = 1}
PeerRequests == {r \in DOMAIN requests : Len(r) > 1}

\* The request whose get_from_node sent the peer request c.
Parent(c) == SubSeq(c, 1, Len(c) - 1)

\* All the orders in which the elements of S can be enumerated.
Orders(S) ==
    {o \in [1..Cardinality(S) -> S] : \A p \in S : \E i \in DOMAIN o : o[i] = p}

\* web.Response(body=content) / raise web.HTTPNotFound() / an unhandled exception.
Respond(req, status, body) ==
    [req EXCEPT !.pc = "done", !.status = status, !.body = body]

\* TaskDone as it would be with asyncio.wait(..., return_when=FIRST_COMPLETED).
TaskDoneFirst(r, p) ==
    \E q \in DOMAIN requests[r].fetches :
        IF q \in Nodes THEN requests[r \o <<q>>].pc = "done"
        ELSE requests[r].fetches[q] # "pending"

\* get_from_node(node, file_name) of request r has returned or raised.  A fetch
\* from a server is done when the server has answered the request it received;
\* fetches[p] records the outcome only for an address without a server.
TaskDone(r, p) ==
    IF p \in Nodes THEN requests[r \o <<p>>].pc = "done"
    ELSE requests[r].fetches[p] # "pending"

\* done_task.result() raises the exception the coroutine did not catch.
TaskRaises(r, p) ==
    p \notin Nodes /\ requests[r].fetches[p] = "raised"

\* The dict get_from_node returns.
TaskResult(r, p) ==
    IF p \in Nodes
    THEN [content |-> Bytes(requests[r \o <<p>>].body),
          status_code |-> requests[r \o <<p>>].status]
    ELSE [content |-> [t |-> "str", v |-> NotFoundBody], status_code |-> 404]

\* The loop over `done`, taken in the order `order`.
RECURSIVE ScanDone(_, _)
ScanDone(r, order) ==
    IF order = <<>> THEN [raised |-> FALSE, content |-> None]
    ELSE LET p == Head(order) IN
         IF TaskRaises(r, p) THEN [raised |-> TRUE, content |-> None]
         ELSE IF TaskResult(r, p).status_code = 200
              THEN [raised |-> FALSE, content |-> TaskResult(r, p).content]
              ELSE ScanDone(r, Tail(order))

\* A write of the bytes chunk at offset off of a file that holds cur (the
\* file system fills a gap before off with zero bytes).
Overwrite(cur, off, chunk) ==
    IF off > Len(cur)
    THEN cur \o [i \in 1..(off - Len(cur)) |-> 0] \o chunk
    ELSE SubSeq(cur, 1, off) \o chunk \o SubSeq(cur, off + Len(chunk) + 1, Len(cur))

\* NewThread as it would be if the writer were given another file name.
NewThreadMisnamed(n, f, content) ==
    [node |-> n, file_name |-> "y", content |-> content, pc |-> "start", written |-> 0]

\* Thread(target=self._save_file, args=(content, file_name))
\* (written: the bytes of content that have reached the file).
NewThread(n, f, content) ==
    [node |-> n, file_name |-> f, content |-> content, pc |-> "start", written |-> 0]

----------------------------------------------------------------------------
Init ==
    /\ nodes \in Topologies
    /\ save_file \in {[n \in Nodes |-> b] : b \in BOOLEAN}
    /\ directory \in {d \in [Nodes -> [FileNames ->
                                   UNION {Stored(n, f) : n \in Nodes, f \in FileNames}]] :
                        \A n \in Nodes, f \in FileNames : d[n][f] \in Stored(n, f)}
    /\ requests = <<>>
    /\ threads = <<>>

\* A client sends GET /{file_name}, GET /from_node/{file_name} or GET /info to
\* server n (f is the last segment of the path).
ClientRequest(n, path, f) ==
    /\ Cardinality(ClientRequests) < MaxClientRequests
    /\ requests' = requests @@
                       (<<Cardinality(ClientRequests) + 1>> :> NewRequest(n, path, f))
    /\ UNCHANGED <<nodes, save_file, directory, threads>>

\* get_info: the identity of the server; no file is read or written.
get_info(r) ==
    /\ requests[r].pc = "start"
    /\ Route(requests[r].path) = "get_info"
    /\ requests' = [requests EXCEPT ![r] = Respond(requests[r], 200, InfoBody)]
    /\ UNCHANGED <<nodes, save_file, directory, threads>>

\* get_local: the local file, or HTTPNotFound.
get_local(r) ==
    /\ requests[r].pc = "start"
    /\ Route(requests[r].path) = "get_local"
    /\ LET req == requests[r]
           content == _read_file(req.node, req.file_name)
       IN requests' = [requests EXCEPT ![r] =
              IF Falsy(content)
              THEN Respond([req EXCEPT !.content = content], 404, NotFoundBody)
              ELSE Respond([req EXCEPT !.content = content], 200, content.v)]
    /\ UNCHANGED <<nodes, save_file, directory, threads>>

\* get_file up to `await asyncio.wait(futures)`: the local lookup and, when
\* it raises HTTPNotFound, one get_from_node per neighbour.
get_file(r) ==
    /\ requests[r].pc = "start"
    /\ Route(requests[r].path) = "get_file"
    /\ LET req == requests[r]
           n == req.node
           content == _read_file(n, req.file_name)
           futures == [p \in nodes[n] |-> "pending"]
           sent == [c \in {r \o <<p>> : p \in nodes[n] \cap Nodes} |->
                         NewRequest(c[Len(c)], FetchPath, req.file_name)]
       IN requests' =
              IF ~Falsy(content)
              THEN [requests EXCEPT ![r] =
                       Respond([req EXCEPT !.content = content], 200, content.v)]
              ELSE IF nodes[n] = {}
              THEN \* asyncio.wait([]) raises ValueError
                   [requests EXCEPT ![r] =
                       Respond([req EXCEPT !.content = content], 500, ServerErrorBody)]
              ELSE [requests EXCEPT ![r] =
                       [req EXCEPT !.content = content, !.pc = "wait", !.fetches = futures]]
                   @@ sent
    /\ UNCHANGED <<nodes, save_file, directory, threads>>

\* get_from_node to an address where no server answers: session.get raises.
get_from_node_fails(r, p, kind) ==
    /\ requests[r].pc = "wait"
    /\ p \in DOMAIN requests[r].fetches
    /\ p \notin Nodes
    /\ requests[r].fetches[p] = "pending"
    /\ requests' = [requests EXCEPT ![r].fetches[p] =
                       IF Caught(ExceptionOf(kind)) THEN "returned" ELSE "raised"]
    /\ UNCHANGED <<nodes, save_file, directory, threads>>

\* if self.save_file
ShouldSaveAlways(n) == TRUE

ShouldSave(n) == save_file[n]

\* get_file_resume as it would be if the handler joined the cache writer
\* thread before it answered.
get_file_resume_joins(r, order) ==
    /\ requests[r].pc = "wait"
    /\ \A p \in DOMAIN requests[r].fetches : TaskDone(r, p)
    /\ LET req == requests[r]
           res == ScanDone(r, order)
       IN IF res.raised
          THEN /\ requests' = [requests EXCEPT ![r] = Respond(req, 500, ServerErrorBody)]
               /\ UNCHANGED threads
          ELSE IF Falsy(res.content)
          THEN /\ requests' = [requests EXCEPT ![r] = Respond(req, 404, NotFoundBody)]
               /\ UNCHANGED threads
          ELSE IF ~ShouldSave(req.node)
          THEN /\ requests' = [requests EXCEPT ![r] = Respond(req, 200, res.content.v)]
               /\ UNCHANGED threads
          ELSE IF r \notin DOMAIN threads
          THEN /\ threads' = threads @@
                                (r :> NewThread(req.node, req.file_name, res.content.v))
               /\ UNCHANGED requests
          ELSE /\ threads[r].pc \in {"done", "failed"}
               /\ requests' = [requests EXCEPT ![r] = Respond(req, 200, threads[r].content)]
               /\ UNCHANGED threads
    /\ UNCHANGED <<nodes, save_file, directory>>

\* get_file after asyncio.wait: all futures are done; scan them, answer, and
\* start the cache writer thread.
get_file_resume(r, order) ==
    /\ requests[r].pc = "wait"
    /\ \A p \in DOMAIN requests[r].fetches : TaskDone(r, p)
    /\ LET req == requests[r]
           res == ScanDone(r, order)
       IN IF res.raised
          THEN /\ requests' = [requests EXCEPT ![r] = Respond(req, 500, ServerErrorBody)]
               /\ UNCHANGED threads
          ELSE IF Falsy(res.content)
          THEN /\ requests' = [requests EXCEPT ![r] = Respond(req, 404, NotFoundBody)]
               /\ UNCHANGED threads
          ELSE /\ requests' = [requests EXCEPT ![r] = Respond(req, 200, res.content.v)]
               /\ threads' = IF ShouldSave(req.node)
                             THEN threads @@
                                     (r :> NewThread(req.node, req.file_name, res.content.v))
                             ELSE threads
    /\ UNCHANGED <<nodes, save_file, directory>>

\* _save_file: open(path, 'wb') creates or truncates the file.
save_file_open(t) ==
    /\ threads[t].pc = "start"
    /\ directory' = [directory EXCEPT ![threads[t].node][threads[t].file_name] = File(<<>>)]
    /\ threads' = [threads EXCEPT ![t].pc = "opened"]
    /\ UNCHANGED <<nodes, save_file, requests>>

\* _save_file: open raises (permission denied); the thread ends.
save_file_open_fails(t) ==
    /\ threads[t].pc = "start"
    /\ threads' = [threads EXCEPT ![t].pc = "failed"]
    /\ UNCHANGED <<nodes, save_file, directory, requests>>

\* save_file_write as it would be if the bytes never reached the file.
save_file_write_lost(t) ==
    /\ threads[t].pc = "opened"
    /\ threads' = [threads EXCEPT ![t].pc = "done"]
    /\ UNCHANGED <<nodes, save_file, directory, requests>>

\* _save_file: file.write(content) and close.  Nothing makes the write atomic
\* for the other threads: the bytes reach the file through the thread's own
\* file position, all at once or some at a time; the file is closed after
\* the last of them.
save_file_write(t) ==
    /\ threads[t].pc = "opened"
    /\ \E k \in 1..(Len(threads[t].content) - threads[t].written) :
          LET n == threads[t].node
              f == threads[t].file_name
              off == threads[t].written
              chunk == SubSeq(threads[t].content, off + 1, off + k)
          IN /\ directory' = [directory EXCEPT ![n][f] =
                    File(Overwrite(directory[n][f].data, off, chunk))]
             /\ threads' = [threads EXCEPT
                    ![t].written = off + k,
                    ![t].pc = IF off + k = Len(threads[t].content) THEN "done" ELSE "opened"]
    /\ UNCHANGED <<nodes, save_file, requests>>

\* save_file_write_fails as it would be if the handler waited for the write
\* and let its exception through.
save_file_write_escalates(t) ==
    /\ threads[t].pc = "opened"
    /\ threads' = [threads EXCEPT ![t].pc = "failed"]
    /\ requests' = [requests EXCEPT ![t].status = 500, ![t].body = ServerErrorBody]
    /\ UNCHANGED <<nodes, save_file, directory>>

\* _save_file: the write raises (disk full); the thread ends.
save_file_write_fails(t) ==
    /\ threads[t].pc = "opened"
    /\ threads' = [threads EXCEPT ![t].pc = "failed"]
    /\ UNCHANGED <<nodes, save_file, directory, requests>>

Next ==
    \/ \E n \in EntryNodes, path \in Paths :
          \E f \in IF path = "info" THEN {"info"} ELSE FileNames : ClientRequest(n, path, f)
    \/ \E r \in DOMAIN requests : get_info(r)
    \/ \E r \in DOMAIN requests : get_local(r)
    \/ \E r \in DOMAIN requests : get_file(r)
    \/ \E r \in DOMAIN requests, p \in Unreachable, kind \in FailureKinds :
          get_from_node_fails(r, p, kind)
    \/ \E r \in DOMAIN requests :
          \E order \in Orders(DOMAIN requests[r].fetches) : get_file_resume(r, order)
    \/ \E t \in DOMAIN threads : save_file_open(t)
    \/ \E t \in DOMAIN threads : save_file_open_fails(t)
    \/ \E t \in DOMAIN threads : save_file_write(t)
    \/ \E t \in DOMAIN threads : save_file_write_fails(t)

Spec == Init /\ [][Next]_vars

\* The steps the event loop runs on its own: the handlers, and the completion
\* of every launched get_from_node.
HandlerStep ==
    \/ \E r \in DOMAIN requests : get_info(r)
    \/ \E r \in DOMAIN requests : get_local(r)
    \/ \E r \in DOMAIN requests : get_file(r)
    \/ \E r \in DOMAIN requests, p \in Unreachable, kind \in FailureKinds :
          get_from_node_fails(r, p, kind)
    \/ \E r \in DOMAIN requests :
          \E order \in Orders(DOMAIN requests[r].fetches) : get_file_resume(r, order)

\* The event loop runs every coroutine that is ready and every launched fetch
\* completes; nothing is assumed of the clients or of the cache writer threads.
FairSpec == Spec /\ WF_vars(HandlerStep)

----------------------------------------------------------------------------
\* Vocabulary of the properties.

\* The finished GET /{file_name} requests.
Answered == {r \in DOMAIN requests : requests[r].path = "file" /\ requests[r].pc = "done"}

\* The servers request r sent a get_from_node to, and the request each received.
PeersAsked(r) == DOMAIN requests[r].fetches \cap Nodes
Asked(r, p) == requests[r \o <<p>>]

\* The cache writer threads of file f of server n.
Writers(n, f) == {t \in DOMAIN threads : threads[t].node = n /\ threads[t].file_name = f}

----------------------------------------------------------------------------
\* C1 (P1, local hit): a GET /{file_name} whose local read found the file
\* with bytes B, the empty byte string included, is answered 200 with body B.
C1_LocalHit ==
    \A r \in Answered :
        requests[r].content.t = "bytes" =>
            requests[r].status = 200 /\ requests[r].body = requests[r].content.v

\* C2 (P3, fallback success): a GET /{file_name} of a file absent locally that
\* some asked server holds, with whatever bytes, is answered 200 with the body
\* one of the servers that answered 200 sent.
C2_FallbackSuccess ==
    \A r \in Answered :
        (/\ requests[r].content = None
         /\ \E p \in PeersAsked(r) : Asked(r, p).content.t = "bytes")
        => /\ requests[r].status = 200
           /\ \E p \in PeersAsked(r) :
                 Asked(r, p).status = 200 /\ requests[r].body = Asked(r, p).body

\* C3 (P2, total miss): a GET /{file_name} of a file absent locally, every
\* configured peer of which answers 404 or cannot be reached, is answered 404.
C3_TotalMiss ==
    \A r \in Answered :
        (/\ requests[r].content = None
         /\ \A p \in PeersAsked(r) : Asked(r, p).status = 404)
        => requests[r].status = 404

\* C4 (P7, empty peer set): on a server without peers every GET /{file_name}
\* that misses locally is answered 404.
C4_EmptyPeerSet ==
    \A r \in Answered :
        (Falsy(requests[r].content) /\ nodes[requests[r].node] = {})
        => requests[r].status = 404

\* C5 as claimed: once the cache writes of file_name have completed, the local
\* store holds exactly the bytes B of the 200 answer that started each of them.
C5_AsClaimed ==
    \A t \in DOMAIN threads :
        LET n == threads[t].node
            f == threads[t].file_name
        IN (\A u \in Writers(n, f) : threads[u].pc = "done")
           => directory[n][f] = File(threads[t].content)

\* C5 (P5, cache population), amended: once every cache write started for
\* file_name on a server has completed without failing and all of them carried
\* the same bytes B, the local store holds exactly B; and every request, GET
\* /{file_name} or /from_node/{file_name}, whose local read finds non-empty
\* bytes B is answered 200 with B and sends no request to a peer.
C5_CachePopulation ==
    /\ \A t \in DOMAIN threads :
          LET n == threads[t].node
              f == threads[t].file_name
          IN (\A u \in Writers(n, f) :
                  threads[u].pc = "done" /\ threads[u].content = threads[t].content)
             => directory[n][f] = File(threads[t].content)
    /\ \A r \in DOMAIN requests :
          (requests[r].content.t = "bytes" /\ requests[r].content.v # <<>>)
          => /\ requests[r].pc = "done"
             /\ requests[r].status = 200
             /\ requests[r].body = requests[r].content.v
             /\ requests[r].fetches = <<>>
             /\ \A c \in PeerRequests : Parent(c) # r

\* C5 witness: a cache write has completed and a later request of the same
\* file on that server was answered from the local store with the written bytes.
C5_Witness ==
    \E t \in DOMAIN threads : \E r \in DOMAIN requests :
        /\ threads[t].pc = "done"
        /\ Len(r) = 1 /\ r[1] > t[1]
        /\ requests[r].node = threads[t].node
        /\ requests[r].file_name = threads[t].file_name
        /\ requests[r].content = Bytes(threads[t].content)
        /\ requests[r].status = 200
        /\ requests[r].body = threads[t].content
        /\ directory[threads[t].node][threads[t].file_name] = File(threads[t].content)

\* C6 (P6, cache disabled): no step changes the directory of a server whose
\* save_file is disabled.
C6_CacheDisabled ==
    [][\A n \in Nodes : ~save_file[n] => directory'[n] = directory[n]]_vars

\* C6 witness: with save_file disabled a GET was answered 200 through the
\* peers and the file is still missing from the local directory.
C6_Witness ==
    \E r \in Answered :
        /\ ~save_file[requests[r].node]
        /\ requests[r].fetches # <<>>
        /\ requests[r].status = 200
        /\ ~directory[requests[r].node][requests[r].file_name].exists

\* C7 (P4, one hop only): a /from_node/ request sends no request to a peer and
\* starts no cache writer, and every request a server sends to a peer is a
\* /from_node/ request.
C7_OneHop ==
    /\ \A r \in DOMAIN requests :
          requests[r].path = "from_node" =>
             /\ requests[r].fetches = <<>>
             /\ \A c \in PeerRequests : Parent(c) # r
             /\ r \notin DOMAIN threads
    /\ \A c \in PeerRequests : requests[c].path = "from_node"

\* C7 witness: a server with neighbours answered 404 to a /from_node/ request
\* sent by a peer, the file being absent from its directory.
C7_Witness ==
    \E c \in PeerRequests :
        /\ requests[c].path = "from_node"
        /\ nodes[requests[c].node] # {}
        /\ requests[c].pc = "done"
        /\ requests[c].content = None
        /\ requests[c].status = 404

\* C8: every GET /{file_name} ends with status 200 or 404.
C8_Only200Or404 ==
    \A r \in Answered : requests[r].status \in {200, 404}

\* C9: no get_from_node raises, and a GET one of whose peers answered 200 is
\* answered 200 however the others failed.
C9_FetchNeverRaises ==
    /\ \A r \in DOMAIN requests : \A p \in DOMAIN requests[r].fetches : ~TaskRaises(r, p)
    /\ \A r \in Answered :
          (\E p \in PeersAsked(r) : Asked(r, p).status = 200) => requests[r].status = 200

\* C10: the answer of the request that started a cache write is 200 with the
\* bytes handed to the writer, whether the write is pending, done or failed.
C10_WriteFailureHidden ==
    \A t \in DOMAIN threads :
        /\ requests[t].pc = "done"
        /\ requests[t].status = 200
        /\ requests[t].body = threads[t].content

\* C10 witness: a cache write failed after truncating the file.
C10_Witness ==
    \E t \in DOMAIN threads :
        /\ threads[t].pc = "failed"
        /\ directory[threads[t].node][threads[t].file_name] = File(<<>>)
        /\ requests[t].status = 200

\* The local read of request r found nothing to serve / found bytes to serve.
LocalMiss(r) ==
    \/ requests[r].content.t = "None"
    \/ requests[r].content.t = "bytes" /\ requests[r].content.v = <<>>
LocalHit(r) ==
    requests[r].content.t = "bytes" /\ requests[r].content.v # <<>>

\* C11 (fire and forget): a request that started a cache write is already
\* answered 200 while the write is still pending (not started, or between
\* open and write); the handler never waits for the thread.
C11_FireAndForget ==
    \A t \in DOMAIN threads :
        threads[t].pc \in {"start", "opened"} =>
            requests[t].pc = "done" /\ requests[t].status = 200

\* C11 witness: while a cache write has the file open and truncated, and its
\* request is answered, another request of the same file has been served (its
\* local read saw the file the writer had just created).
C11_Witness ==
    \E t \in DOMAIN threads : \E r \in DOMAIN requests :
        /\ threads[t].pc = "opened"
        /\ Writers(threads[t].node, threads[t].file_name) = {t}
        /\ requests[t].pc = "done" /\ requests[t].status = 200
        /\ requests[t].content = None
        /\ r # t
        /\ requests[r].node = threads[t].node
        /\ requests[r].file_name = threads[t].file_name
        /\ requests[r].content = Bytes(<<>>)
        /\ requests[r].pc = "done"

\* C12 (wait for all): when a GET /{file_name} is answered, every fetch it
\* launched has completed: none is pending, whatever the others returned.
C12_WaitForAll ==
    \A r \in Answered : \A p \in DOMAIN requests[r].fetches :
        IF p \in Nodes THEN requests[r \o <<p>>].pc = "done"
        ELSE requests[r].fetches[p] # "pending"

\* C12 witness: a GET was answered 200 with the bytes of one peer after the
\* other peer, which answered 404, had completed too.
C12_Witness ==
    \E r \in Answered : \E p, q \in PeersAsked(r) :
        /\ requests[r].status = 200
        /\ Asked(r, p).status = 200 /\ requests[r].body = Asked(r, p).body
        /\ Asked(r, q).pc = "done" /\ Asked(r, q).status = 404

Settled(n, f) ==
    /\ directory[n][f].exists /\ directory[n][f].data # <<>>
    /\ \A t \in Writers(n, f) : threads[t].pc \in {"done", "failed"}
    /\ \A r \in DOMAIN requests :
          (requests[r].node = n /\ requests[r].file_name = f) => requests[r].pc # "wait"

Caused(r) == {c \in PeerRequests : Parent(c) = r}

\* C15 (one-hop bound in a mesh): a client GET /{file_name} that falls back on
\* a server with N configured peers launches exactly N fetches, one per peer,
\* each to /from_node/{file_name} of that peer; a fetch that has ended is never
\* started again; a GET answered from the local store launches none; and no
\* peer request causes a further request, whatever the topology.
C15_OneHop ==
    /\ [](\A r \in ClientRequests :
            /\ requests[r].pc = "start" => Caused(r) = {}
            /\ requests[r].path = "from_node" => requests[r].fetches = <<>> /\ Caused(r) = {}
            /\ (requests[r].path = "file" /\ LocalHit(r)) =>
                   requests[r].fetches = <<>> /\ Caused(r) = {}
            /\ (requests[r].path = "file" /\ requests[r].pc # "start" /\ LocalMiss(r)) =>
                   /\ DOMAIN requests[r].fetches = nodes[requests[r].node]
                   /\ Caused(r) = {r \o <<p>> : p \in nodes[requests[r].node] \cap Nodes}
                   /\ \A p \in PeersAsked(r) :
                         /\ Asked(r, p).node = p
                         /\ Asked(r, p).path = "from_node"
                         /\ Asked(r, p).file_name = requests[r].file_name)
    /\ [](\A c \in PeerRequests :
            Parent(c) \in ClientRequests /\ requests[c].fetches = <<>> /\ Caused(c) = {})
    /\ [][\A r \in DOMAIN requests : \A p \in DOMAIN requests[r].fetches :
             /\ requests[r].fetches[p] # "pending" =>
                   requests'[r].fetches[p] = requests[r].fetches[p]
             /\ (p \in Nodes /\ requests[r \o <<p>>].pc = "done") =>
                   requests'[r \o <<p>>] = requests[r \o <<p>>]]_vars

\* C15 witness: in a cycle (A lists B and B lists A) a GET on A has been
\* answered after every configured peer was asked once, and B, which missed,
\* asked nobody.
C15_Witness ==
    \E r \in Answered : \E p \in PeersAsked(r) :
        /\ requests[r].node \in nodes[p]
        /\ Cardinality(nodes[requests[r].node]) = 2
        /\ Cardinality(Caused(r)) = 2
        /\ Asked(r, p).status = 404
        /\ Caused(r \o <<p>>) = {}

\* C16 (termination): every accepted GET /{file_name} eventually reaches a
\* terminal response with status 200 or 404, provided each launched peer fetch
\* eventually completes and whatever the cache writer does.
C16_Terminates200Or404 ==
    \A k \in 1..MaxClientRequests :
        (<<k>> \in DOMAIN requests /\ requests[<<k>>].path = "file")
            ~> (/\ <<k>> \in DOMAIN requests
                /\ requests[<<k>>].pc = "done"
                /\ requests[<<k>>].status \in {200, 404})

HalfWritten(n, f) ==
    \E t \in Writers(n, f) :
        threads[t].pc = "opened" /\ directory[n][f].data # threads[t].content

\* C18 (no torn read): no GET /{file_name} or /from_node/{file_name} is
\* answered 200 or 404 from a local read of a file that is half-written at
\* that moment (created or truncated by a cache write whose bytes are not all
\* stored yet).
C18_NoTornRead ==
    [][\A r \in DOMAIN requests :
          (/\ requests[r].pc = "start"
           /\ requests[r].path \in {"file", "from_node"}
           /\ requests'[r].pc = "done"
           /\ requests'[r].status \in {200, 404})
          => ~HalfWritten(requests[r].node, requests[r].file_name)]_vars

====
